---- MODULE Spec2Model ----
(***************************************************************************)
(* Model of library/src/rng/distribution/poisson.hpp (rocRAND):            *)
(*   - poisson_distribution::set_lambda / calculate_probabilities, the     *)
(*     table builder that trims the Poisson PMF to a window, and           *)
(*   - poisson_distribution_manager, the cache that owns one sampling      *)
(*     structure and the lambda it was built from.                         *)
(*                                                                         *)
(* Real numbers.  A rate lambda is the rational lam / LamDen, carried as   *)
(* its numerator lam.  A double that holds a probability is carried by its *)
(* natural logarithm in fixed point (units of 1/Scale): <<1, l>> is the    *)
(* value exp(l / Scale) and <<0, 0>> is the value 0.0.  std::exp is        *)
(* strictly increasing, so  pp < p_epsilon  is decided on the logarithms.  *)
(* std::log is computed by its atanh series in integer arithmetic and      *)
(* std::lgamma(x + 1.0), x a whole number, as the sum of the logarithms of *)
(* 1..x; lgamma has a pole (+inf) at 0, -1, ..., where exp(-inf) is 0.0.   *)
(***************************************************************************)
EXTENDS Integers, Sequences, FiniteSets, TLC

\* ------------------------------------------------------------------------
\* Bounds of the model
\* ------------------------------------------------------------------------

\* lambda ranges over lam / LamDen
LamDen == 2

\* the table builder is run for lam in 1..MaxLam (lambda = 0.5 .. 10)
MaxLam == 20

\* and for one large rate, lam = BigLam (lambda = 100), where the lower tail
\* is cut above outcome 0 and the kept window overlaps its destination
BigLam == 200

\* the cache is driven with lam in 1..MaxCacheLam
MaxCacheLam == 2

\* number of poisson_distribution_manager objects
NumCaches == 2

\* number of sampling structures the external builder can allocate
MaxHandles == 2

\* ------------------------------------------------------------------------
\* Fixed-point arithmetic standing for <cmath>
\* ------------------------------------------------------------------------

Scale == 10^6

\* scale at which logarithms of whole numbers are accumulated
FineScale == 10^8

\* scale of one term of the atanh series
SeriesScale == 10^9

Round(a, d) == (2 * a + d) \div (2 * d)

RECURSIVE AtanhSum(_, _, _)
\* sum over j >= k of t / ((2j+1) * q^(j-k)), t the k-th power term
AtanhSum(t, q, k) ==
    IF t = 0 THEN 0 ELSE t \div (2 * k + 1) + AtanhSum(t \div q, q, k + 1)

\* ln((m+1)/m) = 2 * atanh(1/(2m+1)), in units of 1/FineScale
LnRatio(m) ==
    Round(AtanhSum((2 * SeriesScale) \div (2 * m + 1), (2 * m + 1) * (2 * m + 1), 0),
          SeriesScale \div FineScale)

\* largest outcome x the builder can evaluate: floor(lambda) + capacity / 2
FloorLam(lam) == lam \div LamDen

ISqrt(y) == CHOOSE r \in 0..(16 * (y \div 256 + 1)) : r * r <= y /\ (r + 1) * (r + 1) > y

MaxOf(S) == CHOOSE m \in S : \A k \in S : k <= m

Lambdas == (1..MaxLam) \cup {BigLam}

CacheLambdas == 1..MaxCacheLam

\* capacity = 2 * static_cast<size_t>(16.0 * (2.0 + std::sqrt(lambda)));
\* floor(16 * (2 + sqrt(l))) = 32 + floor(sqrt(256 * l))
Capacity(lam) == 2 * (16 * 2 + ISqrt((16 * 16 * lam) \div LamDen))

MaxArg == MaxOf({FloorLam(l) + Capacity(l) \div 2 : l \in Lambdas \cup CacheLambdas} \cup {10, LamDen})

RECURSIVE SumLnRatio(_, _)
\* sum of LnRatio(m) for m in a..b, by halving the range
SumLnRatio(a, b) ==
    IF a > b THEN 0
    ELSE IF a = b THEN LnRatio(a)
    ELSE SumLnRatio(a, (a + b) \div 2) + SumLnRatio((a + b) \div 2 + 1, b)

\* ln(k) for k in 1..MaxArg, in units of 1/FineScale
LnTable == [k \in 1..MaxArg |-> SumLnRatio(1, k - 1)]

\* std::log of a whole number, in units of 1/Scale
Ln(k) == Round(LnTable[k], FineScale \div Scale)

\* std::log(lambda)
Log(lam) == Round(LnTable[lam] - LnTable[LamDen], FineScale \div Scale)

RECURSIVE SumLn(_, _)
\* sum of Ln(k) for k in a..b, by halving the range
SumLn(a, b) ==
    IF a > b THEN 0
    ELSE IF a = b THEN Ln(a)
    ELSE SumLn(a, (a + b) \div 2) + SumLn((a + b) \div 2 + 1, b)

\* std::lgamma(x + 1.0) for a whole x >= 0
LGammaTable == [x \in 0..MaxArg |-> SumLn(1, x)]

\* const double p_epsilon = 1e-12, as its logarithm
LogPEpsilon == 0 - 12 * Ln(10)

Zero == <<0, 0>>

\* the same expression with a log-factorial that is 0 instead of +inf at the
\* poles of lgamma
PmfNoPole(lam, loglam, x) ==
    <<1, x * loglam - (IF x < 0 THEN 0 ELSE LGammaTable[x]) - (lam * Scale) \div LamDen>>

\* std::exp(x * log_lambda - std::lgamma(x + 1.0) - lambda)
Pmf(lam, loglam, x) ==
    IF x < 0 THEN Zero
    ELSE <<1, x * loglam - LGammaTable[x] - (lam * Scale) \div LamDen>>

\* the comparison turned round: pp > p_epsilon
BelowEpsilonFlipped(pp) == pp[1] # 0 /\ pp[2] > LogPEpsilon

\* pp < p_epsilon
BelowEpsilon(pp) == pp[1] = 0 \/ pp[2] < LogPEpsilon

\* left without halving the capacity
LeftNoHalf(lam, cap) == FloorLam(lam) - cap

\* static_cast<int>(std::floor(lambda)) - capacity / 2; the subtraction is
\* carried out in size_t and narrowed to int, which yields the mathematical
\* difference for the rates of the model (far inside the range of int)
Left(lam, cap) == FloorLam(lam) - cap \div 2

\* ------------------------------------------------------------------------
\* State
\* ------------------------------------------------------------------------

VARIABLES
    \* poisson_distribution::set_lambda / calculate_probabilities in progress
    pc,          \* "idle", "scan_down", "scan_up", "shift", "done"
    lambda,      \* argument lambda (numerator over LamDen); 0 while idle
    capacity,    \* local capacity
    p,           \* local std::vector<double> p(capacity)
    log_lambda,  \* local log_lambda
    left,        \* local left
    lo,          \* local lo
    hi,          \* local hi
    i,           \* loop variable of the running loop
    size,        \* this->size
    offset,      \* this->offset
    written,     \* indices of p assigned by the two scans (history)
    shiftReads,  \* indices of p read by the compaction loop (history)
    \* poisson_distribution_manager objects and the external resources
    mgr,         \* per object: st, lambda, dis = [handle, size, offset]
    heap,        \* per sampling structure: st, lam, releases
    last,        \* the set_lambda call just made on a manager, if any (history)
    moved        \* a move has transferred a sampling structure (history)

tableVars == <<pc, lambda, capacity, p, log_lambda, left, lo, hi, i, size, offset,
               written, shiftReads>>

cacheVars == <<mgr, heap, last, moved>>

vars == <<tableVars, cacheVars>>

\* ------------------------------------------------------------------------
\* Table builder, one loop iteration per step
\* ------------------------------------------------------------------------

\* poisson_distribution() : base() {} -- no table yet, no call in progress
TableInit ==
    /\ pc = "idle"
    /\ lambda = 0
    /\ capacity = 0
    /\ p = << >>
    /\ log_lambda = 0
    /\ left = 0
    /\ lo = 0
    /\ hi = 0
    /\ i = 0
    /\ size = 0
    /\ offset = 0
    /\ written = {}
    /\ shiftReads = {}

\* set_lambda(lambda) up to the head of the first loop: capacity, the
\* zero-filled vector, then log_lambda, left, lo = 0 and i = capacity / 2
SetLambdaCall(lam) ==
    /\ pc = "idle"
    /\ lambda' = lam
    /\ capacity' = Capacity(lam)
    /\ p' = [k \in 0..(Capacity(lam) - 1) |-> Zero]
    /\ log_lambda' = Log(lam)
    /\ left' = Left(lam, Capacity(lam))
    /\ lo' = 0
    /\ i' = Capacity(lam) \div 2
    /\ pc' = "scan_down"
    /\ written' = {}
    /\ shiftReads' = {}
    /\ UNCHANGED <<hi, size, offset>>
    /\ UNCHANGED cacheVars

\* for (int i = capacity / 2; i >= 0; i--): one test of the loop condition
\* and, when it holds, one body; leaving the loop sets hi = capacity - 1 and
\* i = capacity / 2 + 1 for the second loop
ScanDown ==
    /\ pc = "scan_down"
    /\ LET pp == Pmf(lambda, log_lambda, left + i) IN
       IF i >= 0 /\ ~BelowEpsilon(pp)
       THEN /\ p' = [p EXCEPT ![i] = pp]
            /\ written' = written \cup {i}
            /\ i' = i - 1
            /\ UNCHANGED <<lo, hi, pc>>
       ELSE /\ lo' = IF i >= 0 THEN i + 1 ELSE lo
            /\ hi' = capacity - 1
            /\ i' = capacity \div 2 + 1
            /\ pc' = "scan_up"
            /\ UNCHANGED <<p, written>>
    /\ UNCHANGED <<lambda, capacity, log_lambda, left, size, offset, shiftReads>>
    /\ UNCHANGED cacheVars

\* second loop with hi = i instead of hi = i - 1
ScanUpOffByOne ==
    /\ pc = "scan_up"
    /\ LET pp == Pmf(lambda, log_lambda, left + i) IN
       IF i < capacity /\ ~BelowEpsilon(pp)
       THEN /\ p' = [p EXCEPT ![i] = pp]
            /\ written' = written \cup {i}
            /\ i' = i + 1
            /\ UNCHANGED <<hi, pc>>
       ELSE /\ hi' = IF i < capacity THEN i ELSE hi
            /\ i' = lo
            /\ pc' = "shift"
            /\ UNCHANGED <<p, written>>
    /\ UNCHANGED <<lambda, capacity, log_lambda, left, lo, size, offset, shiftReads>>
    /\ UNCHANGED cacheVars

\* for (int i = capacity / 2 + 1; i < capacity; i++); leaving the loop sets
\* i = lo for the compaction loop
ScanUp ==
    /\ pc = "scan_up"
    /\ LET pp == Pmf(lambda, log_lambda, left + i) IN
       IF i < capacity /\ ~BelowEpsilon(pp)
       THEN /\ p' = [p EXCEPT ![i] = pp]
            /\ written' = written \cup {i}
            /\ i' = i + 1
            /\ UNCHANGED <<hi, pc>>
       ELSE /\ hi' = IF i < capacity THEN i - 1 ELSE hi
            /\ i' = lo
            /\ pc' = "shift"
            /\ UNCHANGED <<p, written>>
    /\ UNCHANGED <<lambda, capacity, log_lambda, left, lo, size, offset, shiftReads>>
    /\ UNCHANGED cacheVars

\* compaction loop with i < hi instead of i <= hi
ShiftStopsEarly ==
    /\ pc = "shift"
    /\ IF i < hi
       THEN /\ p' = [p EXCEPT ![i - lo] = p[i]]
            /\ shiftReads' = shiftReads \cup {i}
            /\ i' = i + 1
            /\ UNCHANGED <<size, offset, pc>>
       ELSE /\ size' = hi - lo + 1
            /\ offset' = left + lo
            /\ pc' = "done"
            /\ UNCHANGED <<p, shiftReads, i>>
    /\ UNCHANGED <<lambda, capacity, log_lambda, left, lo, hi, written>>
    /\ UNCHANGED cacheVars

\* for (int i = lo; i <= hi; i++) p[i - lo] = p[i]; then size and offset
Shift ==
    /\ pc = "shift"
    /\ IF i <= hi
       THEN /\ p' = [p EXCEPT ![i - lo] = p[i]]
            /\ shiftReads' = shiftReads \cup {i}
            /\ i' = i + 1
            /\ UNCHANGED <<size, offset, pc>>
       ELSE /\ size' = hi - lo + 1
            /\ offset' = left + lo
            /\ pc' = "done"
            /\ UNCHANGED <<p, shiftReads, i>>
    /\ UNCHANGED <<lambda, capacity, log_lambda, left, lo, hi, written>>
    /\ UNCHANGED cacheVars

\* this->init(p, this->size, this->offset) and the return of set_lambda:
\* the locals go out of scope, size and offset stay in the object
SetLambdaReturn ==
    /\ pc = "done"
    /\ pc' = "idle"
    /\ lambda' = 0
    /\ capacity' = 0
    /\ p' = << >>
    /\ log_lambda' = 0
    /\ left' = 0
    /\ lo' = 0
    /\ hi' = 0
    /\ i' = 0
    /\ written' = {}
    /\ shiftReads' = {}
    /\ UNCHANGED <<size, offset>>
    /\ UNCHANGED cacheVars

\* ------------------------------------------------------------------------
\* Table builder as one call (what the cache invokes)
\* ------------------------------------------------------------------------

MinOf(S) == CHOOSE m \in S : \A k \in S : m <= k

\* first loop of calculate_probabilities: lo is one above the first index,
\* going down from capacity / 2, whose probability is below p_epsilon
ScanDownResult(lam) ==
    LET cap == Capacity(lam)
        S == {k \in 0..(cap \div 2) : BelowEpsilon(Pmf(lam, Log(lam), Left(lam, cap) + k))}
    IN  IF S = {} THEN 0 ELSE MaxOf(S) + 1

\* second loop: hi is one below the first index, going up from
\* capacity / 2 + 1, whose probability is below p_epsilon
ScanUpResult(lam) ==
    LET cap == Capacity(lam)
        S == {k \in (cap \div 2 + 1)..(cap - 1) :
                  BelowEpsilon(Pmf(lam, Log(lam), Left(lam, cap) + k))}
    IN  IF S = {} THEN cap - 1 ELSE MinOf(S) - 1

\* this->size = hi - lo + 1
TableSize(lam) == ScanUpResult(lam) - ScanDownResult(lam) + 1

\* this->offset = left + lo
TableOffset(lam) == Left(lam, Capacity(lam)) + ScanDownResult(lam)

\* ------------------------------------------------------------------------
\* External discrete-distribution builder (discrete.hpp)
\* ------------------------------------------------------------------------

Caches == 1..NumCaches

Handles == 1..MaxHandles

\* discrete_distribution_base(): size 0, offset 0, no device tables
EmptyDis == [handle |-> 0, size |-> 0, offset |-> 0]

UnusedStructure == [st |-> "unused", lam |-> 0, releases |-> 0]

\* deallocate(): releases the tables behind a handle (their content is gone);
\* nothing to do for a cleared handle
Deallocate(hp, h) ==
    IF h = 0 THEN hp
    ELSE [hp EXCEPT ![h].st = "released", ![h].lam = 0, ![h].releases = @ + 1]

FreeHandles(hp) == {h \in Handles : hp[h].st = "unused"}

\* outcomes of init(p, size, offset): it releases the structure held so far
\* and builds the new one ("ok"), or the allocation of the new one fails
\* ("fail") and nothing is installed
InitOutcomes == {"ok", "fail"}

\* init(p, size, offset) on d for a table computed from lam
InitDis(d, lam, hp, outcome) ==
    IF outcome = "ok"
    THEN [d EXCEPT !.handle = MinOf(FreeHandles(hp))]
    ELSE [d EXCEPT !.handle = 0]

InitHeap(d, lam, hp, outcome) ==
    IF outcome = "ok"
    THEN [Deallocate(hp, d.handle) EXCEPT ![MinOf(FreeHandles(hp))] =
              [st |-> "live", lam |-> lam, releases |-> 0]]
    ELSE Deallocate(hp, d.handle)

\* ------------------------------------------------------------------------
\* poisson_distribution::set_lambda as one call
\* ------------------------------------------------------------------------

\* the window calculate_probabilities computes for each rate of the cache
TableOf == [lam \in CacheLambdas |->
               [size |-> TableSize(lam), offset |-> TableOffset(lam)]]

\* calculate_probabilities stores size and offset in the object, then init
DisSetLambda(d, lam, hp, outcome) ==
    InitDis([d EXCEPT !.size = TableOf[lam].size, !.offset = TableOf[lam].offset],
            lam, hp, outcome)

DisSetLambdaHeap(d, lam, hp, outcome) == InitHeap(d, lam, hp, outcome)

\* ------------------------------------------------------------------------
\* poisson_distribution_manager
\* ------------------------------------------------------------------------

\* built: the call reached dis.set_lambda; result: "ok" or "throw"
NoOp == [op |-> "none", c |-> 0, x |-> 0, built |-> FALSE, result |-> "ok"]

CacheInit ==
    /\ mgr = [c \in Caches |-> [st |-> "none", lambda |-> 0, dis |-> EmptyDis]]
    /\ heap = [h \in Handles |-> UnusedStructure]
    /\ last = NoOp
    /\ moved = FALSE

\* poisson_distribution_manager() = default;  double lambda = 0.0;
Construct(c) ==
    /\ mgr[c].st = "none"
    /\ mgr' = [mgr EXCEPT ![c] = [st |-> "live", lambda |-> 0, dis |-> EmptyDis]]
    /\ last' = NoOp
    /\ UNCHANGED <<heap, moved>>
    /\ UNCHANGED tableVars

\* set_lambda without the test of `changed`: rebuilds on every call
ManagerSetLambdaAlways(c, new_lambda, outcome) ==
    /\ mgr[c].st = "live"
    /\ outcome = "ok" => FreeHandles(heap) # {}
    /\ mgr' = [mgr EXCEPT ![c].lambda = new_lambda,
                          ![c].dis = DisSetLambda(mgr[c].dis, new_lambda, heap, outcome)]
    /\ heap' = DisSetLambdaHeap(mgr[c].dis, new_lambda, heap, outcome)
    /\ last' = [NoOp EXCEPT !.op = "set_lambda", !.c = c, !.x = new_lambda,
                            !.built = TRUE,
                            !.result = IF outcome = "ok" THEN "ok" ELSE "throw"]
    /\ UNCHANGED moved
    /\ UNCHANGED tableVars

\* void set_lambda(double new_lambda)
ManagerSetLambda(c, new_lambda, outcome) ==
    /\ mgr[c].st = "live"
    /\ LET changed == mgr[c].lambda # new_lambda IN
       IF changed
       THEN /\ outcome = "ok" => FreeHandles(heap) # {}
            /\ mgr' = [mgr EXCEPT ![c].lambda = new_lambda,
                                  ![c].dis = DisSetLambda(mgr[c].dis, new_lambda,
                                                          heap, outcome)]
            /\ heap' = DisSetLambdaHeap(mgr[c].dis, new_lambda, heap, outcome)
            /\ last' = [NoOp EXCEPT !.op = "set_lambda", !.c = c, !.x = new_lambda,
                                    !.built = TRUE,
                                    !.result = IF outcome = "ok" THEN "ok" ELSE "throw"]
       ELSE /\ outcome = "ok"
            /\ last' = [NoOp EXCEPT !.op = "set_lambda", !.c = c, !.x = new_lambda]
            /\ UNCHANGED <<mgr, heap>>
    /\ UNCHANGED moved
    /\ UNCHANGED tableVars

\* move constructor that copies dis and leaves other.dis as it was
MoveConstructNoClear(c, other) ==
    /\ mgr[c].st = "none"
    /\ mgr[other].st = "live"
    /\ mgr' = [mgr EXCEPT ![c] = [st |-> "live", lambda |-> mgr[other].lambda,
                                  dis |-> mgr[other].dis]]
    /\ moved' = (moved \/ mgr[other].dis.handle # 0)
    /\ last' = NoOp
    /\ UNCHANGED heap
    /\ UNCHANGED tableVars

\* poisson_distribution_manager(poisson_distribution_manager&& other)
MoveConstruct(c, other) ==
    /\ mgr[c].st = "none"
    /\ mgr[other].st = "live"
    /\ mgr' = [mgr EXCEPT ![c] = [st |-> "live", lambda |-> mgr[other].lambda,
                                  dis |-> mgr[other].dis],
                          ![other].dis = EmptyDis]
    /\ moved' = (moved \/ mgr[other].dis.handle # 0)
    /\ last' = NoOp
    /\ UNCHANGED heap
    /\ UNCHANGED tableVars

\* operator=(poisson_distribution_manager&& other), the three assignments in
\* order (other may be *this)
MoveAssign(c, other) ==
    /\ mgr[c].st = "live"
    /\ mgr[other].st = "live"
    /\ LET copied == [mgr EXCEPT ![c].dis = mgr[other].dis,
                                 ![c].lambda = mgr[other].lambda]
       IN  mgr' = [copied EXCEPT ![other].dis = EmptyDis]
    /\ moved' = (moved \/ (c # other /\ mgr[other].dis.handle # 0))
    /\ last' = NoOp
    /\ UNCHANGED heap
    /\ UNCHANGED tableVars

\* ~poisson_distribution_manager() { dis.deallocate(); } -- the object and
\* its members are gone afterwards
Destroy(c) ==
    /\ mgr[c].st = "live"
    /\ heap' = Deallocate(heap, mgr[c].dis.handle)
    /\ mgr' = [mgr EXCEPT ![c] = [st |-> "dead", lambda |-> 0, dis |-> EmptyDis]]
    /\ last' = NoOp
    /\ UNCHANGED moved
    /\ UNCHANGED tableVars

\* ------------------------------------------------------------------------
\* Specifications
\* ------------------------------------------------------------------------

Init == TableInit /\ CacheInit

TableNext ==
    \/ \E lam \in Lambdas : SetLambdaCall(lam)
    \/ ScanDown
    \/ ScanUp
    \/ Shift
    \/ SetLambdaReturn

\* the table builder alone, one loop iteration per step
SpecTable == Init /\ [][TableNext]_vars

Next ==
    \/ \E c \in Caches : Construct(c)
    \/ \E c \in Caches, x \in CacheLambdas, o \in InitOutcomes : ManagerSetLambda(c, x, o)
    \/ \E c \in Caches, other \in Caches : MoveConstruct(c, other)
    \/ \E c \in Caches, other \in Caches : MoveAssign(c, other)
    \/ \E c \in Caches : Destroy(c)

\* the cache; the external builder may fail
Spec == Init /\ [][Next]_vars

NextInitOk ==
    \/ \E c \in Caches : Construct(c)
    \/ \E c \in Caches, x \in CacheLambdas : ManagerSetLambda(c, x, "ok")
    \/ \E c \in Caches, other \in Caches : MoveConstruct(c, other)
    \/ \E c \in Caches, other \in Caches : MoveAssign(c, other)
    \/ \E c \in Caches : Destroy(c)

\* the cache when the external builder never fails
SpecInitOk == Init /\ [][NextInitOk]_vars

\* ------------------------------------------------------------------------
\* Properties of the cache
\* ------------------------------------------------------------------------

LiveCaches == {c \in Caches : mgr[c].st = "live"}

Holders(h) == {c \in LiveCaches : mgr[c].dis.handle = h}

\* cache c holds a live sampling structure built from rate x
HoldsStructureFor(c, x) ==
    /\ mgr[c].dis.handle # 0
    /\ heap[mgr[c].dis.handle].st = "live"
    /\ heap[mgr[c].dis.handle].lam = x

\* C1: set_lambda(x) with x equal to the stored lambda is a no-op: it does
\* not reach the table builder or init and leaves the structure, size,
\* offset and lambda (and every other cache and structure) as they were;
\* the builder is reached exactly when x differs from the stored lambda.
C1_SetLambdaSameIsNoOp ==
    [][last'.op = "set_lambda" =>
          /\ last'.built <=> (last'.x # mgr[last'.c].lambda)
          /\ ~last'.built => (mgr' = mgr /\ heap' = heap)]_vars

\* a second set_lambda(x) was made on a cache that holds the structure for x
C1_Witness ==
    /\ last.op = "set_lambda"
    /\ ~last.built
    /\ mgr[last.c].lambda = last.x
    /\ HoldsStructureFor(last.c, last.x)

\* C2: every sampling structure allocated and not yet released is held by
\* exactly one live cache (no leak), whatever the sequence of construction,
\* set_lambda, moves and destruction.
C2_NoResourceLeak ==
    \A h \in Handles : heap[h].st = "live" => Cardinality(Holders(h)) = 1

\* C3: no sampling structure is released twice; a move clears the source's
\* handle, so no two caches hold the same structure, and no cache holds a
\* released one.
C3_NoDoubleRelease ==
    /\ \A h \in Handles : heap[h].releases <= 1
    /\ \A h \in Handles : Cardinality(Holders(h)) <= 1
    /\ \A c \in LiveCaches :
           mgr[c].dis.handle # 0 => heap[mgr[c].dis.handle].st = "live"

\* the only structure ever built went through a move, every cache (the
\* source and the destination among them) is destroyed, and the structure
\* was released once
C3_Witness ==
    /\ moved
    /\ \A c \in Caches : mgr[c].st = "dead"
    /\ heap[1].releases = 1
    /\ \A h \in Handles \ {1} : heap[h].st = "unused"

\* C4: every live cache is either empty with stored lambda 0 or holds the
\* structure built from exactly its stored lambda.
C4_CacheConsistent ==
    \A c \in LiveCaches :
        \/ mgr[c].dis.handle = 0 /\ mgr[c].lambda = 0
        \/ HoldsStructureFor(c, mgr[c].lambda)

\* C6: a set_lambda(x) in which init failed does not leave the cache with
\* stored lambda x and no structure built for x.
C6_FailedSetLambdaNotRemembered ==
    (last.op = "set_lambda" /\ last.result = "throw") =>
        ~(mgr[last.c].lambda = last.x /\ ~HoldsStructureFor(last.c, last.x))
\* ------------------------------------------------------------------------
\* Properties of the table builder
\* ------------------------------------------------------------------------

\* probability the code computes for the outcome at index k of the window
PmfAt(k) == Pmf(lambda, log_lambda, left + k)

\* calculate_probabilities has finished its two scans
Scanned == pc \in {"shift", "done"}

\* the step-by-step builder and the builder as one call agree
StepwiseMatchesCall ==
    pc = "done" => size = TableSize(lambda) /\ offset = TableOffset(lambda)

\* C5: after calculate_probabilities 1 <= size <= capacity with
\* size = hi - lo + 1 and capacity = 2 * floor(16 * (2 + sqrt(lambda))), and
\* the window contains the centre index capacity / 2.
C5_SizeWithinCapacity ==
    pc = "done" =>
        /\ 1 <= size /\ size <= capacity
        /\ size = hi - lo + 1
        /\ lo <= capacity \div 2 /\ capacity \div 2 <= hi
        /\ capacity = 2 * (capacity \div 2)
        /\ LET r == capacity \div 2 - 32 IN
               /\ r >= 0
               /\ r * r * LamDen <= 256 * lambda
               /\ 256 * lambda < (r + 1) * (r + 1) * LamDen

\* a finished table that was trimmed at both ends
C5_Witness == pc = "done" /\ 0 < lo /\ hi < capacity - 1 /\ size > 1

\* C7 as stated: for lambda = 10 capacity is 164, left is -72, offset is 0
\* and size lies in 26..30.
C7_Lambda10SizeUpTo30 ==
    (pc = "done" /\ lambda = 10 * LamDen) =>
        capacity = 164 /\ left = 0 - 72 /\ offset = 0 /\ 26 <= size /\ size <= 30

\* C7 amended: for lambda = 10 capacity is 164, left is -72, offset is 0 and
\* size is 40 (outcomes 0..39 have probability at least 1e-12).
C7_Lambda10SizeIs40 ==
    (pc = "done" /\ lambda = 10 * LamDen) =>
        capacity = 164 /\ left = 0 - 72 /\ offset = 0 /\ size = 40

\* the table for lambda = 10 is finished
C7_Witness == pc = "done" /\ lambda = 10 * LamDen

\* C8: the kept range [lo, hi] is the maximal run around capacity / 2 of
\* entries whose computed probability is at least 1e-12: every kept entry is
\* at least 1e-12 and was stored by a scan, and the entry just outside each
\* end is below 1e-12 unless that end is the end of the array.
C8_TrimIsMaximalRun ==
    /\ Scanned =>
           /\ \A k \in lo..hi : ~BelowEpsilon(PmfAt(k)) /\ k \in written
           /\ lo > 0 => BelowEpsilon(PmfAt(lo - 1))
           /\ hi < capacity - 1 => BelowEpsilon(PmfAt(hi + 1))
           /\ 0 <= lo /\ hi <= capacity - 1
           /\ written = lo..hi
    /\ pc = "done" => \A j \in 0..(size - 1) : ~BelowEpsilon(p[j])

\* a finished table whose lower end was cut by the threshold at an outcome
\* above 0 and whose upper end was cut as well
C8_Witness == pc = "done" /\ lo > 0 /\ left + lo > 0 /\ hi < capacity - 1

\* C9: after compaction p[j] is the probability computed for outcome
\* offset + j for every j < size, size = hi - lo + 1, offset = left + lo; the
\* shift reads only indices of [lo, hi] that a scan wrote, and an entry not
\* yet copied still has the value the scan stored.
C9_CompactionCorrect ==
    /\ pc = "done" =>
           /\ size = hi - lo + 1
           /\ offset = left + lo
           /\ \A j \in 0..(size - 1) : p[j] = Pmf(lambda, log_lambda, offset + j)
           /\ shiftReads = lo..hi
    /\ Scanned => shiftReads \subseteq (lo..hi) \cap written
    /\ pc = "shift" => \A k \in i..hi : p[k] = PmfAt(k)

\* a finished compaction whose source range [lo, hi] overlaps its
\* destination range [0, size - 1]
C9_Witness == pc = "done" /\ lo > 0 /\ size > lo

\* C10: the resulting offset is >= 0 and every entry the scans keep is for
\* an outcome x >= 0, although left may be negative.
C10_NonNegativeOffset ==
    /\ pc = "done" => offset >= 0
    /\ Scanned => left + lo >= 0
    /\ \A k \in written : left + k >= 0

\* a finished table with negative left whose downward scan stopped at
\* outcome -1
C10_Witness == pc = "done" /\ left < 0 /\ offset = 0
====
